---- MODULE Spec2Model ----
(***************************************************************************)
(* A model of the bls_tests command line client (src/src/cli.rs,           *)
(* src/src/utils.rs): one run of the program from argument parsing through  *)
(* CliCtx::new, the command's input handling and manifest, the gateway      *)
(* conversation of execute_transaction, and the extraction of the result    *)
(* from the receipt.  The gateway is the environment: it answers every call *)
(* with any value of the call's answer type.                                *)
(***************************************************************************)
EXTENDS Integers, Sequences, FiniteSets, TLC

VARIABLES
    pc,         \* position of the run in run() / execute_transaction
    ctx,        \* the CliCtx built by CliCtx::new, or NoCtx
    command,    \* the sub-command that was parsed, or "none"
    manifest,   \* the manifest the command built, or NoValue
    tx,         \* the notarized transaction of this run, or NoValue
    intent_hash,\* the bech32 text of the intent hash, or NoValue
    log,        \* the gateway calls issued so far, in order
    sent,       \* what each call of log was given: the transaction or the key
    submit,     \* the answer of transaction_submit, or NoValue
    status,     \* the last answer of transaction_status, or "none"
    failures,   \* the transient failures of transaction_status so far
    details,    \* the TransactionDetails that was fetched, or NoValue
    outcome,    \* how the run ended: a printed result or a panic
    assembled,  \* the transactions create_notarized_transaction has built
    codec       \* the address codec exercise: network, raw, text, decoded

vars == <<pc, ctx, command, manifest, tx, intent_hash, log, sent, submit, status,
          failures,
          details, outcome, assembled, codec>>

NoValue == [none |-> TRUE]
NoCtx == [none |-> TRUE]

(***************************************************************************)
(* Bounds of the model.                                                    *)
(***************************************************************************)
\* u64 is modelled at this width: epochs are the naturals below 2^EpochBits.
EpochBits == 4
\* Pending answers after which the gateway stops answering Pending.
MaxPolls == 2
\* transient failures of the status query in one run
MaxFailures == 2
\* public keys / signatures / messages given on the command line
MaxKeys == 2
\* transactions assembled under AsmSpec
MaxTx == 2
\* bytes of a raw address after its entity byte
AddrTail == 2
\* setup instructions before the operation of a manifest under SlotSpec
MaxSetup == 2

EpochModulus == 2 ^ EpochBits
Epochs == 0 .. (EpochModulus - 1)

(***************************************************************************)
(* Program constants.                                                      *)
(***************************************************************************)
NETWORK_ID == 33
MARDUNET_NETWORK_ID == 36
NETWORK_NAME == "enkinet"
MARDUNET_NETWORK_NAME == "mardunet"
\* "tdx_21_" and "tdx_24_" as character codes
NETWORK_HRP_SUFFIX == <<116, 100, 120, 95, 50, 49, 95>>
MARDUNET_NETWORK_HRP_SUFFIX == <<116, 100, 120, 95, 50, 52, 95>>
GATEWAY_URL == "https://enkinet-gateway.radixdlt.com"
MARDUNET_GATEWAY_URL == "https://mardunet-gateway.radixdlt.com"
\* end_epoch_exclusive: Epoch::of(epoch + 10)
EPOCH_WINDOW == 10
\* nonce: 5
NONCE == 5
\* Secp256k1PrivateKey::from_u64(3)
PRIVATE_KEY_SEED == 3
\* details.get_output(1)
OUTPUT_SLOT == 1

(***************************************************************************)
(* The bech32m text form of addresses (AddressBech32Encoder and            *)
(* AddressBech32Decoder, built by CliCtx::new from the network definition). *)
(* A text is the sequence of its character codes: the human readable part,  *)
(* the separator "1", the data in the 32 character alphabet and a six       *)
(* character checksum.                                                     *)
(***************************************************************************)
Ok(v) == [ok |-> TRUE, value |-> v]
Err(e) == [ok |-> FALSE, err |-> e]

RECURSIVE Xor(_, _)
Xor(a, b) ==
    IF a = 0 THEN b
    ELSE IF b = 0 THEN a
    ELSE (((a % 2) + (b % 2)) % 2) + 2 * Xor(a \div 2, b \div 2)

\* "qpzry9x8gf2tvdw0s3jn54khce6mua7l"
CHARSET == <<113, 112, 122, 114, 121, 57, 120, 56, 103, 102, 50, 116, 118,
             100, 119, 48, 115, 51, 106, 110, 53, 52, 107, 104, 99, 101, 54,
             109, 117, 97, 55, 108>>
SEPARATOR == 49
GEN == <<996825010, 642813549, 513874426, 1027748829, 705979059>>
BECH32M_CONST == 734539939
CHECKSUM_LENGTH == 6

\* the generators selected by the bits of b, from the i-th on, applied to chk
RECURSIVE ApplyGen(_, _, _)
ApplyGen(chk, b, i) ==
    IF chk >= 0 /\ i <= Len(GEN)
    THEN ApplyGen(IF (b \div (2 ^ (i - 1))) % 2 = 1 THEN Xor(chk, GEN[i]) ELSE chk,
                  b, i + 1)
    ELSE chk

\* one step of the checksum: the top five bits of chk select the generators
PolymodStep(chk, v) ==
    ApplyGen(Xor((chk % (2 ^ 25)) * 32, v), chk \div (2 ^ 25), 1)

\* chk is a 30-bit value, computed at every step before the next one starts
RECURSIVE PolymodFrom(_, _, _)
PolymodFrom(chk, values, i) ==
    IF chk >= 0 /\ i <= Len(values)
    THEN PolymodFrom(PolymodStep(chk, values[i]), values, i + 1)
    ELSE chk

Polymod(values) == PolymodFrom(1, values, 1)

HrpExpand(hrp) ==
    [i \in 1 .. Len(hrp) |-> hrp[i] \div 32] \o <<0>> \o
    [i \in 1 .. Len(hrp) |-> hrp[i] % 32]

CreateChecksum(hrp, data) ==
    LET values == HrpExpand(hrp) \o data \o [i \in 1 .. CHECKSUM_LENGTH |-> 0]
        pm == Xor(Polymod(values), BECH32M_CONST)
    IN  [i \in 1 .. CHECKSUM_LENGTH |->
            (pm \div (2 ^ (5 * (CHECKSUM_LENGTH - i)))) % 32]

VerifyChecksum(hrp, data) == Polymod(HrpExpand(hrp) \o data) = BECH32M_CONST

\* the bits of a sequence of `width`-bit values, most significant first
BitsOf(values, width) ==
    [k \in 1 .. (Len(values) * width) |->
        (values[((k - 1) \div width) + 1]
            \div (2 ^ (width - 1 - ((k - 1) % width)))) % 2]

\* the value of the `width` bits of `bits` that start at position k,
\* positions past the end reading as 0
RECURSIVE GroupValue(_, _, _)
GroupValue(bits, k, width) ==
    IF width = 0 THEN 0
    ELSE (IF k <= Len(bits) THEN bits[k] ELSE 0) * (2 ^ (width - 1))
         + GroupValue(bits, k + 1, width - 1)

\* bytes to 5-bit groups, the last group padded with zero bits
ToBase32(bytes) ==
    LET bits == BitsOf(bytes, 8)
        n == (Len(bits) + 4) \div 5
    IN  [g \in 1 .. n |-> GroupValue(bits, 5 * (g - 1) + 1, 5)]

\* 5-bit groups to bytes; the left-over bits must be fewer than 5, all zero
FromBase32(data) ==
    LET bits == BitsOf(data, 5)
        n == Len(bits) \div 8
        rest == Len(bits) - 8 * n
    IN  IF rest >= 5 \/ \E k \in (8 * n + 1) .. Len(bits) : bits[k] = 1
        THEN Err("InvalidPadding")
        ELSE Ok([g \in 1 .. n |-> GroupValue(bits, 8 * (g - 1) + 1, 8)])

\* the characters of a sequence of 5-bit values
CharsOf(values) == [i \in 1 .. Len(values) |-> CHARSET[values[i] + 1]]

Bech32Encode(hrp, data) ==
    hrp \o <<SEPARATOR>> \o CharsOf(data \o CreateChecksum(hrp, data))

\* the position of the last separator of a text, 0 when it has none
LastSeparator(text) ==
    IF \A i \in 1 .. Len(text) : text[i] # SEPARATOR THEN 0
    ELSE CHOOSE i \in 1 .. Len(text) :
            /\ text[i] = SEPARATOR
            /\ \A j \in (i + 1) .. Len(text) : text[j] # SEPARATOR

KnownChars(chars) ==
    \A i \in 1 .. Len(chars) : \E v \in 1 .. Len(CHARSET) : CHARSET[v] = chars[i]
ValuesOf(chars) ==
    [i \in 1 .. Len(chars) |->
        (CHOOSE v \in 1 .. Len(CHARSET) : CHARSET[v] = chars[i]) - 1]

\* the checksum of the data under the human readable part, then the data
\* without its checksum
Bech32Checked(hrp, data) ==
    IF ~VerifyChecksum(hrp, data) THEN Err("InvalidChecksum")
    ELSE Ok([hrp |-> hrp, data |-> SubSeq(data, 1, Len(data) - CHECKSUM_LENGTH)])

Bech32Parts(hrp, chars) ==
    IF Len(hrp) = 0 \/ Len(chars) < CHECKSUM_LENGTH THEN Err("InvalidLength")
    ELSE IF ~KnownChars(chars) THEN Err("InvalidChar")
    ELSE Bech32Checked(hrp, ValuesOf(chars))

Bech32Split(text, sep) ==
    IF sep = 0 THEN Err("MissingSeparator")
    ELSE Bech32Parts(SubSeq(text, 1, sep - 1), SubSeq(text, sep + 1, Len(text)))

Bech32Decode(text) == Bech32Split(text, LastSeparator(text))

\* the entity types of the model: the first byte of a raw address
PACKAGE_ENTITY == 13
ACCOUNT_ENTITY == 193
EntityTypes == {PACKAGE_ENTITY, ACCOUNT_ENTITY}
\* "package_", "account_", "txid_"
PACKAGE_HRP_PREFIX == <<112, 97, 99, 107, 97, 103, 101, 95>>
ACCOUNT_HRP_PREFIX == <<97, 99, 99, 111, 117, 110, 116, 95>>
TXID_HRP_PREFIX == <<116, 120, 105, 100, 95>>
\* the length of a raw address: the entity byte and its tail
NODE_ID_LENGTH == 1 + AddrTail

\* the human readable part of an entity type under a network definition
GetEntityHrp(network_definition, entity) ==
    (IF entity = PACKAGE_ENTITY THEN PACKAGE_HRP_PREFIX ELSE ACCOUNT_HRP_PREFIX)
        \o network_definition.hrp_suffix

AddressBech32Encoder_new(network_definition) == [network |-> network_definition]
AddressBech32Decoder_new(network_definition) == [network |-> network_definition]
TransactionHashBech32Encoder_new(network_definition) == [network |-> network_definition]

\* AddressBech32Encoder::encode
AddressEncode(encoder, full_data) ==
    IF Len(full_data) = 0 THEN Err("MissingEntityTypeByte")
    ELSE IF full_data[1] \notin EntityTypes THEN Err("InvalidEntityTypeId")
    ELSE Ok(Bech32Encode(GetEntityHrp(encoder.network, full_data[1]),
                         ToBase32(full_data)))

\* the entity byte of the decoded bytes selects the human readable part the
\* decoder expects
ValidateBytes(decoder, hrp, b) ==
    IF ~b.ok THEN b
    ELSE IF Len(b.value) = 0 THEN Err("MissingEntityTypeByte")
    ELSE IF b.value[1] \notin EntityTypes THEN Err("InvalidEntityTypeId")
    ELSE IF GetEntityHrp(decoder.network, b.value[1]) # hrp THEN Err("InvalidHrp")
    ELSE b

ValidateDecoded(decoder, d) ==
    IF ~d.ok THEN d ELSE ValidateBytes(decoder, d.value.hrp, FromBase32(d.value.data))

\* AddressBech32Decoder::validate_and_decode
ValidateAndDecode(decoder, text) == ValidateDecoded(decoder, Bech32Decode(text))

\* PackageAddress::try_from: a package address of the fixed length
PackageAddress_try_from(r) ==
    IF ~r.ok THEN r
    ELSE IF Len(r.value) # NODE_ID_LENGTH THEN Err("InvalidLength")
    ELSE IF r.value[1] # PACKAGE_ENTITY THEN Err("InvalidEntityTypeId")
    ELSE r

\* PackageAddress::try_from_bech32: None unless the text decodes under the
\* decoder's network to a package address of the fixed length
PackageAddress_try_from_bech32(decoder, text) ==
    PackageAddress_try_from(ValidateAndDecode(decoder, text))

(***************************************************************************)
(* CliCtx::new and the command line.                                       *)
(***************************************************************************)
None == [is_some |-> FALSE]
Some(v) == [is_some |-> TRUE, some |-> v]
IsSome(o) == o.is_some

NetworkNames == {NETWORK_NAME, MARDUNET_NETWORK_NAME, "stokenet"}

GatewayApiClient_new(url) == [url |-> url]
Secp256k1PrivateKey_from_u64(n) == [secret |-> n]
PublicKey(private_key) == [public_of |-> private_key.secret]

\* the match of CliCtx::new: the gateway and the network definition of a name
NetworkOf(network_name) ==
    IF network_name = MARDUNET_NETWORK_NAME
    THEN Ok([gateway |-> GatewayApiClient_new(MARDUNET_GATEWAY_URL),
             network_definition |->
                [id |-> MARDUNET_NETWORK_ID,
                 logical_name |-> MARDUNET_NETWORK_NAME,
                 hrp_suffix |-> MARDUNET_NETWORK_HRP_SUFFIX]])
    ELSE IF network_name = NETWORK_NAME
    THEN Ok([gateway |-> GatewayApiClient_new(GATEWAY_URL),
             network_definition |->
                [id |-> NETWORK_ID,
                 logical_name |-> NETWORK_NAME,
                 hrp_suffix |-> NETWORK_HRP_SUFFIX]])
    ELSE Err("Network not supported")

\* CliCtx_of with the address encoder bound to the enkinet definition,
\* whatever network was selected
CliCtx_of_enkinet_encoder(n) ==
    IF ~n.ok THEN n
    ELSE Ok([gateway |-> n.value.gateway,
             network_definition |-> n.value.network_definition,
             address_decoder |-> AddressBech32Decoder_new(n.value.network_definition),
             address_encoder |->
                AddressBech32Encoder_new(NetworkOf(NETWORK_NAME).value.network_definition),
             hash_encoder |-> TransactionHashBech32Encoder_new(n.value.network_definition),
             private_key |-> Secp256k1PrivateKey_from_u64(PRIVATE_KEY_SEED)])

\* the fields of CliCtx from the gateway and the network definition
CliCtx_of(n) ==
    IF ~n.ok THEN n
    ELSE Ok([gateway |-> n.value.gateway,
             network_definition |-> n.value.network_definition,
             address_decoder |-> AddressBech32Decoder_new(n.value.network_definition),
             address_encoder |-> AddressBech32Encoder_new(n.value.network_definition),
             hash_encoder |-> TransactionHashBech32Encoder_new(n.value.network_definition),
             private_key |-> Secp256k1PrivateKey_from_u64(PRIVATE_KEY_SEED)])

CliCtx_new(network_name) == CliCtx_of(NetworkOf(network_name))

SupportedCtx == {CliCtx_new(n).value : n \in {NETWORK_NAME, MARDUNET_NETWORK_NAME}}

\* the bytes a raw address may hold after its entity byte
ByteSamples == {0, 1, 255}
RawAddresses ==
    {<<e>> \o t : e \in EntityTypes, t \in [1 .. AddrTail -> ByteSamples]}
\* the raw address of the published CryptoScrypto package
CryptoScryptoRaw == [i \in 1 .. NODE_ID_LENGTH |-> IF i = 1 THEN PACKAGE_ENTITY ELSE 255]
AccountRaw == [i \in 1 .. NODE_ID_LENGTH |-> IF i = 1 THEN ACCOUNT_ENTITY ELSE 0]

\* a text with its last character replaced by another one of the alphabet
Corrupt(text) ==
    [text EXCEPT ![Len(text)] = IF text[Len(text)] = CHARSET[1] THEN CHARSET[2] ELSE CHARSET[1]]

\* the package address texts given with --package-address: the default of
\* the command line (CRYPTO_SCRYPTO_PACKAGE_ADDRESS, an enkinet text), the
\* same package under mardunet, a text with a wrong checksum character, and
\* the address of an account
CRYPTO_SCRYPTO_PACKAGE_ADDRESS ==
    AddressEncode(CliCtx_new(NETWORK_NAME).value.address_encoder, CryptoScryptoRaw).value
AddressTexts ==
    {CRYPTO_SCRYPTO_PACKAGE_ADDRESS,
     AddressEncode(CliCtx_new(MARDUNET_NETWORK_NAME).value.address_encoder, CryptoScryptoRaw).value,
     Corrupt(CRYPTO_SCRYPTO_PACKAGE_ADDRESS),
     AddressEncode(CliCtx_new(NETWORK_NAME).value.address_encoder, AccountRaw).value}

\* hex texts of keys and signatures: from_str succeeds on "hex" alone
HexTexts == {"hex", "nothex"}
HexLists == UNION {[1 .. n -> HexTexts] : n \in 0 .. MaxKeys}
FromStr(text) == IF text = "hex" THEN Ok(text) ELSE Err("ParseError")

Commands == {"GatewayStatus", "KeccakHash", "BlsVerify", "BlsAggregateVerify",
             "BlsFastAggregateVerify", "BlsSignatureAggregate", "PublishPackage"}
TransactionCommands == Commands \ {"GatewayStatus"}

\* the arguments of each command
ArgsOf(cmd) ==
    CASE cmd = "GatewayStatus" -> {[none |-> TRUE]}
      [] cmd = "KeccakHash" -> [package_address : AddressTexts]
      [] cmd = "BlsVerify" ->
            [package_address : AddressTexts, public_key : HexTexts, signature : HexTexts]
      [] cmd = "BlsAggregateVerify" ->
            [package_address : AddressTexts, msgs : 0 .. MaxKeys,
             public_keys : HexLists, signature : HexTexts]
      [] cmd = "BlsFastAggregateVerify" ->
            [package_address : AddressTexts, public_keys : HexLists, signature : HexTexts]
      [] cmd = "BlsSignatureAggregate" ->
            [package_address : AddressTexts, signatures : HexLists]
      [] cmd = "PublishPackage" ->
            [code : {"readable", "unreadable"},
             rpd : {"decodable", "unreadable", "undecodable"}]

CRYPTO_SCRYPTO_BLUEPRINT_NAME == "CryptoScrypto"

\* ManifestBuilder::new().lock_fee_from_faucet().call_function(..).build()
CallFunctionManifest(package_address, function_name) ==
    <<[instruction |-> "lock_fee_from_faucet"],
      [instruction |-> "call_function", package_address |-> package_address,
       blueprint |-> CRYPTO_SCRYPTO_BLUEPRINT_NAME, function |-> function_name]>>

PublishManifest ==
    <<[instruction |-> "lock_fee_from_faucet"],
      [instruction |-> "publish_package_advanced"]>>

\* every text of a list is accepted by from_str
AllParse(texts) == \A i \in 1 .. Len(texts) : FromStr(texts[i]).ok

Min(a, b) == IF a < b THEN a ELSE b

(***************************************************************************)
(* What each command does with its arguments before it calls               *)
(* execute_transaction: Ok(manifest), or Err of the unwrap that panics.    *)
(* `a` is the result of PackageAddress::try_from_bech32 on the             *)
(* --package-address text.                                                  *)
(***************************************************************************)
cmd_keccak_hash(a, args) ==
    IF ~a.ok THEN Err("package_address")
    ELSE Ok(CallFunctionManifest(a.value, "keccak256_hash"))

cmd_bls_verify(a, args) ==
    IF ~a.ok THEN Err("package_address")
    ELSE IF ~FromStr(args.public_key).ok THEN Err("public_key")
    ELSE IF ~FromStr(args.signature).ok THEN Err("signature")
    ELSE Ok(CallFunctionManifest(a.value, "bls12381_v1_verify"))

\* public_keys.iter().zip(msgs): only the keys that have a message are parsed
cmd_bls_aggregate_verify(a, args) ==
    IF ~a.ok THEN Err("package_address")
    ELSE IF ~AllParse(SubSeq(args.public_keys, 1, Min(Len(args.public_keys), args.msgs)))
         THEN Err("public_key")
    ELSE IF ~FromStr(args.signature).ok THEN Err("signature")
    ELSE Ok(CallFunctionManifest(a.value, "bls12381_v1_aggregate_verify"))

cmd_bls_fast_aggregate_verify(a, args) ==
    IF ~a.ok THEN Err("package_address")
    ELSE IF ~AllParse(args.public_keys) THEN Err("public_key")
    ELSE IF ~FromStr(args.signature).ok THEN Err("signature")
    ELSE Ok(CallFunctionManifest(a.value, "bls12381_v1_fast_aggregate_verify"))

cmd_bls_signature_aggregate(a, args) ==
    IF ~a.ok THEN Err("package_address")
    ELSE IF ~AllParse(args.signatures) THEN Err("signature")
    ELSE Ok(CallFunctionManifest(a.value, "bls12381_g2_signature_aggregate"))

cmd_publish_package(args) ==
    IF args.code # "readable" THEN Err("code_path")
    ELSE IF args.rpd = "unreadable" THEN Err("rpd_path")
    ELSE IF args.rpd = "undecodable" THEN Err("rpd_decode")
    ELSE Ok(PublishManifest)

\* the command's package address under the decoder of the context
PackageAddressOf(c, args) ==
    PackageAddress_try_from_bech32(c.address_decoder, args.package_address)

\* the command with the decoded package address
CommandWith(cmd, a, args) ==
    CASE cmd = "KeccakHash" -> cmd_keccak_hash(a, args)
      [] cmd = "BlsVerify" -> cmd_bls_verify(a, args)
      [] cmd = "BlsAggregateVerify" -> cmd_bls_aggregate_verify(a, args)
      [] cmd = "BlsFastAggregateVerify" -> cmd_bls_fast_aggregate_verify(a, args)
      [] cmd = "BlsSignatureAggregate" -> cmd_bls_signature_aggregate(a, args)

\* the match of run() on a command that executes a transaction
CommandManifest(cmd, c, args) ==
    IF cmd = "PublishPackage" THEN cmd_publish_package(args)
    ELSE CommandWith(cmd, PackageAddressOf(c, args), args)

InputErrors == {"Network not supported", "package_address", "public_key",
                "signature", "code_path", "rpd_path", "rpd_decode"}

Panic(at, what) == [kind |-> "panic", at |-> at, what |-> what]
Printed(what) == [kind |-> "printed", what |-> what]
Running == [kind |-> "running"]

(***************************************************************************)
(* utils.rs: create_notarized_transaction and transaction_output.          *)
(***************************************************************************)
\* epoch + 10 on u64: with overflow checks the addition panics, without
\* them it wraps around
AddU64(a, b, overflow_checks) ==
    IF a + b < EpochModulus THEN Ok(a + b)
    ELSE IF overflow_checks THEN Err("attempt to add with overflow")
    ELSE Ok((a + b) % EpochModulus)

\* the intent hash is a digest of the header and the manifest
IntentHashOf(header, m) == [hash_of |-> <<header, m>>]

\* create_notarized_transaction with the intent hash taken from the manifest
\* alone, not from the transaction that was built
create_notarized_transaction_manifest_hash(network_definition, epoch, private_key, m, overflow_checks) ==
    LET end == AddU64(epoch, EPOCH_WINDOW, overflow_checks)
        header == [network_id |-> network_definition.id,
                   start_epoch_inclusive |-> epoch,
                   end_epoch_exclusive |-> end.value,
                   nonce |-> NONCE,
                   notary_public_key |-> PublicKey(private_key),
                   notary_is_signatory |-> FALSE,
                   tip_percentage |-> 0]
        transaction == [header |-> header,
                        manifest |-> m,
                        notary_signature |->
                            [by |-> private_key.secret, over |-> IntentHashOf(header, m)]]
    IN  IF ~end.ok THEN end
        ELSE Ok([transaction |-> transaction, intent_hash |-> IntentHashOf(NoValue, m)])

create_notarized_transaction(network_definition, epoch, private_key, m, overflow_checks) ==
    LET end == AddU64(epoch, EPOCH_WINDOW, overflow_checks)
        header == [network_id |-> network_definition.id,
                   start_epoch_inclusive |-> epoch,
                   end_epoch_exclusive |-> end.value,
                   nonce |-> NONCE,
                   notary_public_key |-> PublicKey(private_key),
                   notary_is_signatory |-> FALSE,
                   tip_percentage |-> 0]
        transaction == [header |-> header,
                        manifest |-> m,
                        notary_signature |->
                            [by |-> private_key.secret, over |-> IntentHashOf(header, m)]]
    IN  IF ~end.ok THEN end
        ELSE Ok([transaction |-> transaction, intent_hash |-> IntentHashOf(header, m)])

\* TransactionHashBech32Encoder::encode: the text of a transaction hash
HashEncode(encoder, hash) ==
    [hrp |-> TXID_HRP_PREFIX \o encoder.network.hrp_suffix, hash |-> hash]

\* the receipt: "transaction.receipt.output", indexed from 0, and the error
get_output(d, index) ==
    IF index + 1 <= Len(d.output) THEN Some(d.output[index + 1]) ELSE None
get_error(d) == d.error

\* the outputs a receipt slot may hold: the hex of a value of the type the
\* command expects, the hex of another value, and a text that is not hex
OutputTexts == {"value", "mistyped", "nothex"}
hex_decode(text) == IF text = "nothex" THEN Err("FromHexError") ELSE Ok([sbor |-> text])
scrypto_decode(bytes) == IF bytes.sbor = "value" THEN Ok(bytes.sbor) ELSE Err("DecodeError")

Receipts ==
    [output : {<<>>, <<"unit">>} \cup {<<"unit", o>> : o \in OutputTexts},
     error : {None, Some("error")}]

\* utils::transaction_output: the bytes of slot 1, or the panic it ends in
transaction_output(d) ==
    LET output == get_output(d, OUTPUT_SLOT)
    IN  IF IsSome(output)
        THEN (IF hex_decode(output.some).ok
              THEN [panics |-> FALSE, value |-> hex_decode(output.some).value]
              ELSE [panics |-> TRUE, message |-> "unwrap on Err"])
        ELSE (IF IsSome(get_error(d))
              THEN [panics |-> TRUE, message |-> "Transaction error"]
              ELSE [panics |-> TRUE, message |-> "unwrap on None"])

\* the end of every cmd_* function: what it prints from the receipt, or the
\* unwrap it panics in
ExtractResult(cmd, c, d) ==
    LET output == get_output(d, OUTPUT_SLOT)
        sbor_data == hex_decode(output.some)
        value == scrypto_decode(sbor_data.value)
    IN  IF IsSome(output)
        THEN (IF ~sbor_data.ok THEN Panic("extract", "hex::decode")
              ELSE IF ~value.ok THEN Panic("extract", "scrypto_decode")
              ELSE IF cmd = "PublishPackage"
                   THEN Printed(AddressEncode(c.address_encoder, CryptoScryptoRaw).value)
              ELSE Printed(value.value))
        ELSE (IF IsSome(get_error(d))
              THEN Printed([transaction_error |-> get_error(d).some])
              ELSE Panic("extract", "get_error unwrap on None"))

(***************************************************************************)
(* The gateway's answers.                                                  *)
(***************************************************************************)
StatusValues == {"Pending", "CommittedSuccess", "CommittedFailure", "Rejected", "Unknown"}
TerminalValues == {"CommittedSuccess", "CommittedFailure", "Rejected"}
SubmitAnswers ==
    {[message |-> None, code |-> None, details |-> None]} \cup
    [message : {Some("rejected")}, code : {None, Some("code")},
     details : {None, Some("details")}]

\* the epochs the gateway answers current_epoch with: the least ones, the
\* last ones whose window fits, the first whose window does not, the greatest
EpochSamples == {0, 1, EpochModulus - EPOCH_WINDOW - 1, EpochModulus - EPOCH_WINDOW,
                 EpochModulus - 1}

CountOf(calls, name) == Cardinality({i \in 1 .. Len(calls) : calls[i] = name})
\* the status queries that were answered Pending
Pendings == CountOf(log, "transaction_status") - failures

(***************************************************************************)
(* The run.                                                                *)
(***************************************************************************)
Init ==
    /\ pc = "start"
    /\ ctx = NoCtx
    /\ command = "none"
    /\ manifest = <<>>
    /\ tx = NoValue
    /\ intent_hash = NoValue
    /\ log = <<>>
    /\ sent = <<>>
    /\ submit = NoValue
    /\ status = "none"
    /\ failures = 0
    /\ details = NoValue
    /\ outcome = Running
    /\ assembled = <<>>
    /\ codec = [stage |-> "idle"]

\* Started with the gateway asked for the epoch before the inputs are looked at
Started_epoch_first(c, m) ==
    /\ ctx' = c
    /\ log' = Append(log, "current_epoch")
    /\ sent' = Append(sent, NoValue)
    /\ IF ~m.ok
       THEN /\ pc' = "panicked"
            /\ outcome' = Panic("input", m.err)
            /\ UNCHANGED manifest
       ELSE /\ pc' = "current_epoch"
            /\ manifest' = m.value
            /\ UNCHANGED outcome

\* a command that executes a transaction, after its input handling
Started(c, m) ==
    /\ ctx' = c
    /\ IF ~m.ok
       THEN /\ pc' = "panicked"
            /\ outcome' = Panic("input", m.err)
            /\ UNCHANGED <<manifest, log, sent>>
       ELSE /\ pc' = "current_epoch"
            /\ manifest' = m.value
            /\ UNCHANGED <<outcome, log, sent>>

\* the command under the context CliCtx::new returned
Dispatch(cmd, args, c) ==
    IF ~c.ok
    THEN /\ pc' = "panicked"
         /\ outcome' = Panic("input", c.err)
         /\ UNCHANGED <<ctx, manifest, log, sent>>
    ELSE IF cmd = "GatewayStatus"
    THEN /\ ctx' = c.value
         /\ log' = Append(log, "gateway_status")
         /\ sent' = Append(sent, NoValue)
         /\ pc' = "done"
         /\ outcome' = Printed("gw status")
         /\ UNCHANGED manifest
    ELSE Started(c.value, CommandManifest(cmd, c.value, args))

\* run(): Cli::parse, CliCtx::new and the command up to execute_transaction
run(network_name, cmd, args) ==
    /\ pc = "start"
    /\ command' = cmd
    /\ Dispatch(cmd, args, CliCtx_new(network_name))
    /\ UNCHANGED <<tx, intent_hash, submit, status, failures, details, assembled, codec>>

\* execute_transaction: current_epoch, create_notarized_transaction and the
\* encoding of the intent hash
current_epoch(epoch, overflow_checks) ==
    /\ pc = "current_epoch"
    /\ log' = Append(log, "current_epoch")
    /\ sent' = Append(sent, NoValue)
    /\ LET r == create_notarized_transaction(ctx.network_definition, epoch,
                                             ctx.private_key, manifest, overflow_checks)
       IN  IF r.ok
           THEN /\ tx' = r.value.transaction
                /\ intent_hash' = HashEncode(ctx.hash_encoder, r.value.intent_hash)
                /\ pc' = "submit"
                /\ UNCHANGED outcome
           ELSE /\ pc' = "panicked"
                /\ outcome' = Panic("assemble", r.err)
                /\ UNCHANGED <<tx, intent_hash>>
    /\ UNCHANGED <<ctx, command, manifest, submit, status, failures, details, assembled,
                   codec>>

\* AfterSubmit without the test of submit.message
AfterSubmit_unchecked(answer) == Running

\* what execute_transaction does with the answer of transaction_submit:
\* "poll", or the panic the error branch ends in
AfterSubmit(answer) ==
    IF IsSome(answer.message)
    THEN (IF ~IsSome(answer.code) THEN Panic("submit", "code unwrap on None")
          ELSE IF ~IsSome(answer.details) THEN Panic("submit", "details unwrap on None")
          ELSE Panic("submit", "Transaction submit error"))
    ELSE Running

transaction_submit(answer) ==
    /\ pc = "submit"
    /\ log' = Append(log, "transaction_submit")
    /\ sent' = Append(sent, tx)
    /\ submit' = answer
    /\ outcome' = AfterSubmit(answer)
    /\ pc' = IF AfterSubmit(answer).kind = "panic" THEN "panicked" ELSE "poll"
    /\ UNCHANGED <<ctx, command, manifest, tx, intent_hash, status, failures,
                   details, assembled, codec>>

\* the exit test with every answer ending the loop
LoopExits_any_answer(answer) == TRUE

\* the exit test of the poll loop
LoopExits(answer) == answer # "Pending"

\* transaction_status with the submission inside the loop: a Pending answer
\* is followed by another transaction_submit
transaction_status_resubmitting(answer) ==
    /\ pc = "poll"
    /\ answer = "Pending" => Pendings < MaxPolls
    /\ log' = IF answer = "Pending"
              THEN log \o <<"transaction_status", "transaction_submit">>
              ELSE Append(log, "transaction_status")
    /\ sent' = IF answer = "Pending"
               THEN sent \o <<intent_hash, tx>>
               ELSE Append(sent, intent_hash)
    /\ status' = answer
    /\ pc' = IF answer # "Pending" THEN "details" ELSE "sleep"
    /\ UNCHANGED <<ctx, command, manifest, tx, intent_hash, submit, failures, details,
                   outcome, assembled, codec>>

\* transaction_status with the run given up, the details never fetched,
\* when the transaction did not commit successfully
transaction_status_success_only(answer) ==
    /\ pc = "poll"
    /\ answer = "Pending" => Pendings < MaxPolls
    /\ log' = Append(log, "transaction_status")
    /\ sent' = Append(sent, intent_hash)
    /\ status' = answer
    /\ pc' = IF answer = "Pending" THEN "sleep"
             ELSE IF answer = "CommittedSuccess" THEN "details"
             ELSE "panicked"
    /\ outcome' = IF answer \in {"Pending", "CommittedSuccess"} THEN outcome
                  ELSE Panic("poll", answer)
    /\ UNCHANGED <<ctx, command, manifest, tx, intent_hash, submit, failures, details,
                   assembled, codec>>

transaction_status(answer) ==
    /\ pc = "poll"
    /\ answer = "Pending" => Pendings < MaxPolls
    /\ log' = Append(log, "transaction_status")
    /\ sent' = Append(sent, intent_hash)
    /\ status' = answer
    /\ pc' = IF LoopExits(answer) THEN "details" ELSE "sleep"
    /\ UNCHANGED <<ctx, command, manifest, tx, intent_hash, submit, failures, details,
                   outcome, assembled, codec>>

\* AfterTransientFailure with the failure ending the command
AfterTransientFailure_abort == "panicked"

\* where the run continues after a status query that failed transiently
AfterTransientFailure == "poll"

\* a status query that fails transiently is issued again
transaction_status_failure ==
    /\ pc = "poll"
    /\ failures < MaxFailures
    /\ log' = Append(log, "transaction_status")
    /\ sent' = Append(sent, intent_hash)
    /\ failures' = failures + 1
    /\ pc' = AfterTransientFailure
    /\ outcome' = IF AfterTransientFailure = "panicked"
                  THEN Panic("poll", "status query failed") ELSE outcome
    /\ UNCHANGED <<ctx, command, manifest, tx, intent_hash, submit, status, details,
                   assembled, codec>>

\* thread::sleep(time::Duration::from_millis(1000))
sleep ==
    /\ pc = "sleep"
    /\ pc' = "poll"
    /\ UNCHANGED <<ctx, command, manifest, tx, intent_hash, submit, log, sent, status,
                   failures,
                   details, outcome, assembled, codec>>

transaction_details(receipt) ==
    /\ pc = "details"
    /\ log' = Append(log, "transaction_details")
    /\ sent' = Append(sent, intent_hash)
    /\ details' = receipt
    /\ pc' = "extract"
    /\ UNCHANGED <<ctx, command, manifest, tx, intent_hash, submit, status, failures,
                   outcome, assembled, codec>>

\* the run ends with what the command printed or with its panic
Ended(o) ==
    /\ outcome' = o
    /\ pc' = IF o.kind = "panic" THEN "panicked" ELSE "done"

\* the command's handling of the details execute_transaction returned
extract ==
    /\ pc = "extract"
    /\ Ended(ExtractResult(command, ctx, details))
    /\ UNCHANGED <<ctx, command, manifest, tx, intent_hash, submit, log, sent, status,
                   failures,
                   details, assembled, codec>>

Next ==
    \/ \E n \in NetworkNames, cmd \in Commands : \E args \in ArgsOf(cmd) : run(n, cmd, args)
    \/ \E e \in EpochSamples, oc \in BOOLEAN : current_epoch(e, oc)
    \/ \E a \in SubmitAnswers : transaction_submit(a)
    \/ \E a \in StatusValues : transaction_status(a)
    \/ transaction_status_failure
    \/ sleep
    \/ \E r \in Receipts : transaction_details(r)
    \/ extract

Spec == Init /\ [][Next]_vars

\* Every step of Next moves pc or adds a call to log.
position == <<pc, log, status, failures>>

\* The run as a sequential program: once in the poll loop it takes its next
\* step (a query gets its answer, the sleep ends, the details come back),
\* with a gateway that answers Pending at most MaxPolls times.
LiveSpec ==
    /\ Init
    /\ [][Next]_vars
    /\ WF_position(\E a \in StatusValues : transaction_status(a))
    /\ WF_position(sleep)
    /\ WF_position(\E r \in Receipts : transaction_details(r))

(***************************************************************************)
(* create_notarized_transaction on its own: any number of transactions,    *)
(* each from a network, an epoch and a manifest.                            *)
(***************************************************************************)
AsmManifests == {CallFunctionManifest(CryptoScryptoRaw, "keccak256_hash"), PublishManifest}

\* the transactions assembled so far and the one create_notarized_transaction
\* returns; a call that panics returns none
Assembled(r) == IF r.ok THEN Append(assembled, r.value) ELSE assembled

assemble(network_name, epoch, m, overflow_checks) ==
    /\ Len(assembled) < MaxTx
    /\ assembled' =
          Assembled(create_notarized_transaction(
                        CliCtx_new(network_name).value.network_definition, epoch,
                        CliCtx_new(network_name).value.private_key, m, overflow_checks))
    /\ UNCHANGED <<pc, ctx, command, manifest, tx, intent_hash, log, sent, submit, status,
                   failures, details, outcome, codec>>

AsmNext ==
    \E n \in {NETWORK_NAME, MARDUNET_NETWORK_NAME}, e \in Epochs, m \in AsmManifests,
       oc \in BOOLEAN : assemble(n, e, m, oc)

AsmSpec == Init /\ [][AsmNext]_vars

(***************************************************************************)
(* utils::transaction_output on its own: the receipt of a committed        *)
(* transaction whose manifest has any number of setup instructions before  *)
(* its operation is handed to transaction_output.                          *)
(***************************************************************************)
FunctionNames == {"keccak256_hash", "bls12381_v1_verify", "bls12381_v1_aggregate_verify",
                  "bls12381_v1_fast_aggregate_verify", "bls12381_g2_signature_aggregate"}

\* the manifests the commands build
CommandManifests ==
    {CallFunctionManifest(CryptoScryptoRaw, f) : f \in FunctionNames} \cup {PublishManifest}

\* the manifest m with k fee-lock instructions before its operation
WithSetup(m, k) == [i \in 1 .. k |-> m[1]] \o <<m[Len(m)]>>

SlotManifests == {WithSetup(m, k) : m \in CommandManifests, k \in 0 .. MaxSetup}

\* the non-returning setup instructions that precede the operation of m
SetupCount(m) ==
    Cardinality({i \in 1 .. Len(m) : m[i].instruction = "lock_fee_from_faucet"})

\* the receipt of a committed transaction: one output per instruction, the
\* unit of each setup instruction and then the operation's return value
ReceiptOf(m, op_output) ==
    [output |-> [i \in 1 .. Len(m) |->
                    IF m[i].instruction = "lock_fee_from_faucet" THEN "unit" ELSE op_output],
     error |-> None]

SlotInit ==
    /\ pc = "details"
    /\ Init!2 /\ Init!3
    /\ manifest \in SlotManifests
    /\ Init!5 /\ Init!6 /\ Init!7 /\ Init!8 /\ Init!9 /\ Init!10 /\ Init!11
    /\ Init!12 /\ Init!13 /\ Init!14 /\ Init!15

\* the transaction committed and its receipt came back
committed(op_output) ==
    /\ pc = "details"
    /\ details' = ReceiptOf(manifest, op_output)
    /\ pc' = "extract"
    /\ UNCHANGED <<ctx, command, manifest, tx, intent_hash, log, sent, submit, status,
                   failures, outcome, assembled, codec>>

\* transaction_output(&details)
output_read ==
    /\ pc = "extract"
    /\ outcome' = transaction_output(details)
    /\ pc' = IF transaction_output(details).panics THEN "panicked" ELSE "done"
    /\ UNCHANGED <<ctx, command, manifest, tx, intent_hash, log, sent, submit, status,
                   failures, details, assembled, codec>>

SlotNext ==
    \/ \E o \in OutputTexts : committed(o)
    \/ output_read

SlotSpec == SlotInit /\ [][SlotNext]_vars

(***************************************************************************)
(* The address codec of a context on its own: a raw address is encoded by  *)
(* the context's address_encoder (as cmd_publish_package prints a          *)
(* published address) and the text is decoded by the address_decoder of    *)
(* the same context, or of the context of another network (as the          *)
(* commands read --package-address).                                       *)
(***************************************************************************)
CodecInit ==
    /\ Init!1 /\ Init!2 /\ Init!3 /\ Init!4 /\ Init!5 /\ Init!6 /\ Init!7
    /\ Init!8 /\ Init!9 /\ Init!10 /\ Init!11 /\ Init!12 /\ Init!13 /\ Init!14
    /\ codec \in [stage : {"raw"}, network_name : {NETWORK_NAME, MARDUNET_NETWORK_NAME},
                  raw : RawAddresses]

CodecUnchanged ==
    UNCHANGED <<pc, ctx, command, manifest, tx, intent_hash, log, sent, submit, status,
                failures, details, outcome, assembled>>

codec_encode ==
    /\ codec.stage = "raw"
    /\ codec' = [stage |-> "text", network_name |-> codec.network_name, raw |-> codec.raw,
                 text |-> AddressEncode(CliCtx_new(codec.network_name).value.address_encoder,
                                        codec.raw).value]
    /\ CodecUnchanged

codec_decode(network_name) ==
    /\ codec.stage = "text"
    /\ codec' = [stage |-> "decoded", network_name |-> codec.network_name,
                 raw |-> codec.raw, text |-> codec.text, decoder |-> network_name,
                 decoded |-> ValidateAndDecode(CliCtx_new(network_name).value.address_decoder,
                                               codec.text)]
    /\ CodecUnchanged

CodecNext ==
    \/ codec_encode
    \/ \E n \in {NETWORK_NAME, MARDUNET_NETWORK_NAME} : codec_decode(n)

CodecSpec == CodecInit /\ [][CodecNext]_vars

(***************************************************************************)
(* The claims.                                                             *)
(***************************************************************************)
StatusCalls == CountOf(log, "transaction_status")
DetailsCalls == CountOf(log, "transaction_details")
SubmitCalls == CountOf(log, "transaction_submit")

\* C1: transaction_details is never called before a transaction_status
\* query has reported one of the terminal values CommittedSuccess,
\* CommittedFailure, Rejected; Pending and Unknown are not terminal.
C1_DetailsOnlyAfterTerminal ==
    DetailsCalls > 0 => status \in TerminalValues

\* C2: when the answer of transaction_submit carries a message, the run has
\* ended in a panic and no transaction_status and no transaction_details
\* query was issued, whether or not the answer has a code and details.
C2_RejectedSubmissionNeverPolls ==
    (submit # NoValue /\ IsSome(submit.message)) =>
        /\ pc = "panicked"
        /\ outcome.kind = "panic"
        /\ outcome.at = "submit"
        /\ StatusCalls = 0
        /\ DetailsCalls = 0

\* C2 witness: a rejection without a code has been answered and the run
\* panicked right after transaction_submit.
C2_Witness ==
    /\ submit # NoValue
    /\ IsSome(submit.message)
    /\ ~IsSome(submit.code)
    /\ pc = "panicked"
    /\ log = <<"current_epoch", "transaction_submit">>

\* C3: the gateway calls of a run that executes a transaction are, in this
\* order, current_epoch, one transaction_submit, the transaction_status
\* queries and last transaction_details; however many status queries are
\* answered Pending, there is exactly one transaction_submit.
C3_CallsOrderedOneSubmit ==
    command \in TransactionCommands =>
        /\ SubmitCalls <= 1
        /\ \A i \in 1 .. Len(log) :
              /\ i = 1 => log[i] = "current_epoch"
              /\ i = 2 => log[i] = "transaction_submit"
              /\ i > 2 => log[i] \in {"transaction_status", "transaction_details"}
              /\ (log[i] = "transaction_details") => i = Len(log)
        /\ StatusCalls > 0 => SubmitCalls = 1

\* C3 witness: MaxPolls status queries were answered Pending and one more
\* was not, the loop has ended, and the log holds one transaction_submit.
C3_Witness ==
    /\ StatusCalls = MaxPolls + 1
    /\ status # "Pending"
    /\ failures = 0
    /\ pc = "details"
    /\ SubmitCalls = 1

C5_AbsentSlotYieldsError ==
    (details # NoValue /\ ~IsSome(get_output(details, OUTPUT_SLOT))) =>
        /\ ~transaction_output(details).panics
        /\ pc # "extract" => (outcome.kind = "printed" /\ IsSome(get_error(details)))

\* C6: every header create_notarized_transaction builds has
\* end_epoch = start_epoch + 10 and end_epoch > start_epoch, also for the
\* epochs within 10 of the greatest one.
C6_HeaderWindow ==
    \A i \in 1 .. Len(assembled) :
        LET h == assembled[i].transaction.header
        IN  /\ h.end_epoch_exclusive = h.start_epoch_inclusive + EPOCH_WINDOW
            /\ h.end_epoch_exclusive > h.start_epoch_inclusive

\* C7: no transaction with end_epoch <= start_epoch is assembled, and when
\* the assembler refuses one, no gateway call has been made in the run.
C7_BadWindowRejectedBeforeGateway ==
    /\ tx # NoValue =>
          tx.header.end_epoch_exclusive > tx.header.start_epoch_inclusive
    /\ (pc = "panicked" /\ outcome.at = "assemble") => log = <<>>

\* C8: a run that ends with an input error (unsupported network, package
\* address, public key, signature, WASM or RPD file) has issued no gateway
\* call.
C8_InputErrorBeforeGateway ==
    (pc = "panicked" /\ outcome.at = "input") =>
        /\ outcome.what \in InputErrors
        /\ log = <<>>
        /\ tx = NoValue

\* C8 witness: bls-verify on a supported network ended with the panic of
\* the signature's from_str.
C8_Witness ==
    /\ pc = "panicked"
    /\ command = "BlsVerify"
    /\ ctx # NoCtx
    /\ outcome = Panic("input", "signature")

\* C9: any two transactions create_notarized_transaction assembles carry
\* different nonces and have different intent hashes.
C9_NonceUnique ==
    \A i, j \in 1 .. Len(assembled) :
        i # j =>
            /\ assembled[i].transaction.header.nonce # assembled[j].transaction.header.nonce
            /\ assembled[i].intent_hash # assembled[j].intent_hash

\* C10: a text the address_encoder of a context made of a raw address
\* decodes, under the address_decoder of the same context, to that raw
\* address; under the decoder of the other network the decoding fails.
C10_RoundTrip ==
    codec.stage = "decoded" =>
        IF codec.decoder = codec.network_name
        THEN codec.decoded.ok /\ codec.decoded.value = codec.raw
        ELSE ~codec.decoded.ok

\* C10 witness: a mardunet text of a package address came back as the raw
\* address it was made of.
C10_Witness ==
    /\ codec.stage = "decoded"
    /\ codec.network_name = MARDUNET_NETWORK_NAME
    /\ codec.decoder = MARDUNET_NETWORK_NAME
    /\ codec.raw[1] = PACKAGE_ENTITY
    /\ codec.decoded.ok
    /\ codec.decoded.value = codec.raw

\* the transaction that was handed to transaction_submit
SubmittedTx == sent[CHOOSE i \in 1 .. Len(log) : log[i] = "transaction_submit"]

\* C11: every transaction_status query and the transaction_details query
\* of a run are given one and the same key, the bech32 text (under the
\* selected network) of the intent hash of the header and the manifest of
\* the notarized transaction the run submitted.
C11_QueriesKeyedBySubmittedIntent ==
    /\ Len(sent) = Len(log)
    /\ \A i \in 1 .. Len(log) :
          log[i] \in {"transaction_status", "transaction_details"} =>
              /\ SubmitCalls = 1
              /\ sent[i] = HashEncode(ctx.hash_encoder,
                                      IntentHashOf(SubmittedTx.header, SubmittedTx.manifest))
              /\ sent[i].hrp = TXID_HRP_PREFIX \o ctx.network_definition.hrp_suffix

\* C11 witness: two status queries and the details query were issued, all
\* with the key of the transaction that was submitted.
C11_Witness ==
    /\ pc = "extract"
    /\ StatusCalls = 2
    /\ failures = 0
    /\ sent[3] = sent[4]
    /\ sent[4] = sent[5]
    /\ sent[3].hash = IntentHashOf(sent[2].header, sent[2].manifest)

\* a status query that was answered: the loop is left exactly on an answer
\* other than Pending, and otherwise the run sleeps
AnsweredQuery ==
    (pc = "poll" /\ failures' = failures) =>
        /\ StatusCalls' = StatusCalls + 1
        /\ (status' # "Pending") <=> (pc' = "details")
        /\ (status' = "Pending") <=> (pc' = "sleep")

\* after the sleep the status is queried again
SleptThenQueries ==
    (pc = "sleep") => (pc' = "poll" /\ status' = "Pending" /\ log' = log)

\* the loop is left only for transaction_details, on an answer other than Pending
OnlyExit ==
    (pc \in {"poll", "sleep"} /\ ~(pc' \in {"poll", "sleep"})) =>
        (pc' = "details" /\ status' # "Pending")

\* C12: the poll loop leaves on a status answer exactly when the answer is
\* not Pending, and otherwise sleeps and queries again; nothing but such an
\* answer ends the loop (no timeout, no cancellation); and with a gateway
\* that eventually answers something other than Pending, a run that reached
\* the loop eventually has fetched the details once and returned them.
C12_PollLoopExitsOnNonPending ==
    /\ [][AnsweredQuery]_position
    /\ [][SleptThenQueries]_position
    /\ [][OnlyExit]_position
    /\ [](pc = "sleep" => status = "Pending")
    /\ (pc = "poll") ~> (pc = "extract" /\ DetailsCalls = 1 /\ status # "Pending")

\* C12 witness: the loop was answered Pending as often as the gateway may,
\* slept after each, then left on CommittedSuccess and the details came back.
C12_Witness ==
    /\ pc = "extract"
    /\ Pendings = MaxPolls
    /\ Pendings > 0
    /\ status = "CommittedSuccess"
    /\ details # NoValue

\* the answer of transaction_submit carried a message: the submission was rejected
SubmitRejected == submit # NoValue /\ IsSome(submit.message)

\* a status query was answered with something other than Pending
LoopEnded == status \notin {"none", "Pending"}

\* C13: in a run whose submission was accepted and whose poll loop ended,
\* transaction_details is called exactly once, whichever of
\* CommittedSuccess, CommittedFailure and Rejected ended the loop: never
\* twice, not at all before the loop ends, and once the loop has ended the
\* one call follows.  In a run whose submission was rejected it is never
\* called.
C13_DetailsExactlyOnce ==
    /\ [](DetailsCalls <= 1)
    /\ [](SubmitRejected => DetailsCalls = 0 /\ ~LoopEnded)
    /\ [](DetailsCalls = 1 => LoopEnded /\ ~SubmitRejected)
    /\ []((LoopEnded /\ pc # "details") => DetailsCalls = 1)
    /\ \A s \in TerminalValues :
          (status = s) ~> (status = s /\ DetailsCalls = 1)

\* C13 witness: the loop ended on Rejected after an accepted submission and
\* the run is over with its one transaction_details call made.
C13_Witness ==
    /\ status = "Rejected"
    /\ submit # NoValue
    /\ ~IsSome(submit.message)
    /\ DetailsCalls = 1
    /\ pc = "done"

\* the return value of the operation in the receipt of manifest
OperationOutput == get_output(details, SetupCount(manifest))

====
